---- MODULE Spec2Model ----
(***************************************************************************)
(* EncPedPop: the encryption layer of the ChillDKG reference               *)
(* (python/chilldkg_ref/encpedpop.py), with the older one-ECDH-per-pair    *)
(* variant (reference/encpedpop.py) where its first round is needed.       *)
(*                                                                         *)
(* Byte strings are sequences of naturals.  A compressed point, a 32-byte  *)
(* secret and a 32-byte hash are one token each; an integer written with   *)
(* to_bytes(4, "big") is four tokens in 0..255.  The curve group is the    *)
(* subgroup of order GroupOrder of the integers modulo FieldPrime, a point *)
(* being the residue Generator^x; scalars are integers modulo GroupOrder.  *)
(***************************************************************************)
EXTENDS Integers, Sequences, FiniteSets, TLC

\* ------------------------------------------------------------------ bounds

\* Largest number of participants of a session.
MaxN == 3

\* ------------------------------------------------- group and hash primitives

\* Order of the scalar field / of the group (secp256k1's n, scaled down).
GroupOrder == 5
\* Modulus of the group's arithmetic (the group is the order-5 subgroup mod 11).
FieldPrime == 11
\* The generator G.
Generator == 4
\* Range of the 32-byte hash, as a number.
HashMod == 1009
\* A 33-byte string that is not the encoding of a curve point.
NotOnCurve == 2
\* The index of an InvalidContributionError raised with index None.
NoIndex == -1

Scalars == 0 .. (GroupOrder - 1)
SecKeys == 1 .. (GroupOrder - 1)

RECURSIVE PowMod(_, _)
PowMod(b, e) ==
    IF e = 0 THEN 1 ELSE (b * PowMod(b, e - 1)) % FieldPrime

\* pubkey_gen_plain: the compressed encoding of seckey * G.
pubkey_gen_plain(seckey) == <<PowMod(Generator, seckey[1])>>

Points == { PowMod(Generator, x) : x \in SecKeys }

\* Whether a 33-byte string decodes to a curve point.
is_valid_point(pk) == Len(pk) = 1 /\ pk[1] \in Points

\* Scalar arithmetic (Scalar.__add__, __sub__, Scalar.sum).
scalar_add(a, b) == (a + b) % GroupOrder
scalar_sub(a, b) == (a + GroupOrder - b) % GroupOrder

RECURSIVE scalar_sum(_)
scalar_sum(s) ==
    IF s = <<>> THEN 0 ELSE scalar_add(Head(s), scalar_sum(Tail(s)))

\* b"".join(list of byte strings)
RECURSIVE join(_)
join(l) ==
    IF l = <<>> THEN <<>> ELSE Head(l) \o join(Tail(l))

\* i.to_bytes(4, byteorder="big"), for 0 <= i < 2^32
to_bytes4(i) ==
    << (i \div 16777216) % 256, (i \div 65536) % 256, (i \div 256) % 256, i % 256 >>

\* The hash function: a fold over the tokens of its input, from token i on.
RECURSIVE hash_fold(_, _, _)
hash_fold(h, s, i) ==
    IF i > Len(s) THEN h
    ELSE hash_fold((h * 31 + s[i] + 1) % HashMod, s, i + 1)

\* The tags of the domain-separated hashes, as first token of the input.
tag_id(tag) ==
    CASE tag = "encpedpop ecdh" -> 301
      [] tag = "encaps_multi self_pad" -> 302
      [] tag = "encpodpop secnonce" -> 303
      [] tag = "encpedpop seed" -> 304
      [] tag = "ECDH" -> 305
      [] tag = "EncPedPop seed" -> 306
      [] tag = "simplpedpop coefficient" -> 307
      [] OTHER -> 300

\* tagged_hash_bip_dkg(tag, data): 32 bytes
tagged_hash_bip_dkg(tag, data) == << hash_fold(tag_id(tag), data, 1) >>

\* The byte string prf() hashes under its tag: seed, then extra_input.
prf_data(seed, extra_input) == seed \o extra_input

\* prf(seed, tag, extra_input): 32 bytes
prf(seed, tag, extra_input) == tagged_hash_bip_dkg(tag, prf_data(seed, extra_input))

\* int_from_bytes of a 32-byte string
int_from_bytes(b) == b[1]

\* Scalar(int): reduction modulo the group order
Scalar(x) == x % GroupOrder

\* A 32-byte PRF output used as a secret key.  It is a valid key (nonzero,
\* below the group order) except with negligible probability; that case is
\* left out by mapping the output into 1 .. GroupOrder-1.
as_seckey(b) == << 1 + (b[1] % (GroupOrder - 1)) >>

\* ecdh_libsecp256k1(seckey, their_pubkey): 32 bytes computed from the
\* shared point seckey * their_pubkey.  The caller has checked the point.
ecdh_libsecp256k1(seckey, their_pubkey) ==
    << PowMod(their_pubkey[1], seckey[1]) >>

\* ------------------------------------------------------------- encryption

\* ecdh_data with the caller's key first on both sides.
ecdh_data_own_first(seckey, my_pubkey, their_pubkey, context, sending) ==
    (ecdh_libsecp256k1(seckey, their_pubkey) \o (my_pubkey \o their_pubkey)) \o context

\* The tags under which ecdh() and self_pad() hash.
ecdh_tag == "encpedpop ecdh"
self_pad_tag == "encaps_multi self_pad"

\* The byte string ecdh() hashes: the `data` of the function.
ecdh_data(seckey, my_pubkey, their_pubkey, context, sending) ==
    LET shared == ecdh_libsecp256k1(seckey, their_pubkey)
        keys == IF sending THEN my_pubkey \o their_pubkey
                ELSE their_pubkey \o my_pubkey
    IN  (shared \o keys) \o context

\* ecdh(seckey, my_pubkey, their_pubkey, context, sending), for a
\* their_pubkey that decodes; ecdh_raises says when it does not.
ecdh(seckey, my_pubkey, their_pubkey, context, sending) ==
    Scalar(int_from_bytes(tagged_hash_bip_dkg(ecdh_tag,
        ecdh_data(seckey, my_pubkey, their_pubkey, context, sending))))

\* ecdh_libsecp256k1 raises ValueError on a key that is no curve point.
ecdh_raises(their_pubkey) == ~is_valid_point(their_pubkey)

\* The byte string self_pad() has the PRF hash.
self_pad_data(deckey, context_) == prf_data(deckey, context_)

self_pad(deckey, context_) ==
    Scalar(int_from_bytes(prf(deckey, self_pad_tag, context_)))

\* recipient_context without the index of the recipient.
recipient_context_no_index(i, context) == context

\* The per-recipient context of recipient i (0-based).
recipient_context(i, context) == to_bytes4(i) \o context

\* The tags of the pads of encaps_multi, one per recipient.
encaps_multi_tags(enckeys, idx) ==
    [ j \in 1 .. Len(enckeys) |-> IF j - 1 = idx THEN self_pad_tag ELSE ecdh_tag ]

\* The hash inputs of the pads of encaps_multi, one per recipient.
encaps_multi_data(secnonce, pubnonce, deckey, enckeys, context, idx) ==
    [ j \in 1 .. Len(enckeys) |->
        IF j - 1 = idx
        THEN self_pad_data(deckey, recipient_context(j - 1, context))
        ELSE ecdh_data(secnonce, pubnonce, enckeys[j],
                       recipient_context(j - 1, context), TRUE) ]

\* encaps_multi decoding every key of the list, the caller's own too.
encaps_multi_decoding_all(secnonce, pubnonce, deckey, enckeys, context, idx) ==
    IF \E j \in 1 .. Len(enckeys) : ecdh_raises(enckeys[j])
    THEN [status |-> "ValueError"]
    ELSE [status |-> "ok",
          pads |-> [ j \in 1 .. Len(enckeys) |->
              IF j - 1 = idx
              THEN self_pad(deckey, recipient_context(j - 1, context))
              ELSE ecdh(secnonce, pubnonce, enckeys[j],
                        recipient_context(j - 1, context), TRUE) ]]

encaps_multi(secnonce, pubnonce, deckey, enckeys, context, idx) ==
    IF \E j \in 1 .. Len(enckeys) : j - 1 # idx /\ ecdh_raises(enckeys[j])
    THEN [status |-> "ValueError"]
    ELSE [status |-> "ok",
          pads |-> [ j \in 1 .. Len(enckeys) |->
              IF j - 1 = idx
              THEN self_pad(deckey, recipient_context(j - 1, context))
              ELSE ecdh(secnonce, pubnonce, enckeys[j],
                        recipient_context(j - 1, context), TRUE) ]]

encrypt_multi(secnonce, pubnonce, deckey, enckeys, messages, context, idx) ==
    LET caps == encaps_multi(secnonce, pubnonce, deckey, enckeys, context, idx)
    IN  IF caps.status # "ok" THEN caps
        ELSE IF Len(messages) # Len(caps.pads) THEN [status |-> "ValueError"]
        ELSE [status |-> "ok",
              ciphertexts |-> [ j \in 1 .. Len(messages) |->
                                  scalar_add(messages[j], caps.pads[j]) ]]

\* decrypt_pad with the key order of the sending side.
decrypt_pad_as_sender(deckey, enckey, pubnonces, context_, idx, i) ==
    IF i = idx THEN self_pad(deckey, context_)
    ELSE ecdh(deckey, enckey, pubnonces[i + 1], context_, TRUE)

\* The pad decrypt_sum subtracts for sender i (0-based).
decrypt_pad(deckey, enckey, pubnonces, context_, idx, i) ==
    IF i = idx THEN self_pad(deckey, context_)
    ELSE ecdh(deckey, enckey, pubnonces[i + 1], context_, FALSE)

\* The loop of decrypt_sum from sender i on.
RECURSIVE decrypt_loop(_, _, _, _, _, _, _)
decrypt_loop(acc, deckey, enckey, pubnonces, context_, idx, i) ==
    IF i >= Len(pubnonces) THEN acc
    ELSE decrypt_loop(
            scalar_sub(acc, decrypt_pad(deckey, enckey, pubnonces, context_, idx, i)),
            deckey, enckey, pubnonces, context_, idx, i + 1)

\* decrypt_sum that lets idx = len(pubnonces) pass.
decrypt_sum_off_by_one(deckey, enckey, pubnonces, sum_ciphertexts, context, idx) ==
    IF idx > Len(pubnonces) THEN [status |-> "IndexError"]
    ELSE IF \E j \in 1 .. Len(pubnonces) : j - 1 # idx /\ ecdh_raises(pubnonces[j])
    THEN [status |-> "ValueError"]
    ELSE [status |-> "ok",
          value |-> decrypt_loop(sum_ciphertexts, deckey, enckey, pubnonces,
                                 recipient_context(idx, context), idx, 0)]

decrypt_sum(deckey, enckey, pubnonces, sum_ciphertexts, context, idx) ==
    IF idx >= Len(pubnonces) THEN [status |-> "IndexError"]
    ELSE IF \E j \in 1 .. Len(pubnonces) : j - 1 # idx /\ ecdh_raises(pubnonces[j])
    THEN [status |-> "ValueError"]
    ELSE [status |-> "ok",
          value |-> decrypt_loop(sum_ciphertexts, deckey, enckey, pubnonces,
                                 recipient_context(idx, context), idx, 0)]

\* ------------------------------------------------------- session context

\* serialize_enc_context without the threshold.
serialize_enc_context_keys_only(t, enckeys) == join(enckeys)

serialize_enc_context(t, enckeys) == to_bytes4(t) \o join(enckeys)

\* The extra input of the PRF of derive_simpl_seed.
simpl_seed_data(pubnonce, enc_context) == pubnonce \o enc_context

derive_simpl_seed(seed, pubnonce, enc_context) ==
    prf(seed, "encpedpop seed", simpl_seed_data(pubnonce, enc_context))

\* ---------------------------------------- secret-sharing core (SimplPedPop)
\* The core is used through its interface only:
\*   participant_step1(seed, t, n, idx) -> (state, message, shares[n])
\*   coordinator_step(messages, t, n)   -> (message, dkg_output, transcript)
\*   participant_step2(state, message, total_share) -> (dkg_output, transcript)
\* It is modelled as a verifiable secret sharing: a polynomial of degree
\* t-1 derived from the seed, commitments to its coefficients, and a check
\* of the total share against the summed commitments.

\* Coefficient k (1-based) of the polynomial of a seed.
simpl_coefficient(seed, k) ==
    Scalar(int_from_bytes(prf(seed, "simplpedpop coefficient", to_bytes4(k))))

\* The polynomial of a seed at x, by Horner's rule from coefficient k on.
RECURSIVE simpl_eval(_, _, _, _)
simpl_eval(seed, t, x, k) ==
    IF k > t THEN 0
    ELSE (simpl_coefficient(seed, k) + x * simpl_eval(seed, t, x, k + 1)) % GroupOrder

\* Product in the group of the points of a list.
RECURSIVE point_sum(_)
point_sum(l) ==
    IF l = <<>> THEN 1 ELSE (Head(l)[1] * point_sum(Tail(l))) % FieldPrime

\* The public share of participant idx: the summed commitment at idx+1.
RECURSIVE simpl_pubshare(_, _, _)
simpl_pubshare(sum_coms, idx, k) ==
    IF k > Len(sum_coms) THEN 1
    ELSE (sum_coms[k][1]
          * PowMod(simpl_pubshare(sum_coms, idx, k + 1), (idx + 1) % GroupOrder))
         % FieldPrime

simpl_participant_step1(seed, t, n, idx) ==
    LET com == [ k \in 1 .. t |-> << PowMod(Generator, simpl_coefficient(seed, k)) >> ]
    IN  [state |-> [t |-> t, n |-> n, idx |-> idx, com |-> com],
         pmsg |-> [com |-> com],
         shares |-> [ j \in 1 .. n |-> simpl_eval(seed, t, j, 1) ]]

simpl_coordinator_step(simpl_pmsgs, t, n) ==
    LET sum_coms == [ k \in 1 .. t |->
            << point_sum([ i \in 1 .. Len(simpl_pmsgs) |-> simpl_pmsgs[i].com[k] ]) >> ]
    IN  [cmsg |-> [sum_coms |-> sum_coms],
         dkg_output |-> [threshold_pubkey |-> sum_coms[1],
                         pubshares |-> [ j \in 1 .. n |->
                                          << simpl_pubshare(sum_coms, j - 1, 1) >> ]],
         eq_input |-> to_bytes4(t) \o join(sum_coms)]

simpl_participant_step2(simpl_state, simpl_cmsg, secshare) ==
    LET sum_coms == simpl_cmsg.sum_coms
        pubshare == << simpl_pubshare(sum_coms, simpl_state.idx, 1) >>
    IN  IF << PowMod(Generator, secshare) >> # pubshare
        THEN [status |-> "InvalidContributionError", index |-> NoIndex]
        ELSE [status |-> "ok", index |-> NoIndex,
              dkg_output |-> [secshare |-> secshare,
                              threshold_pubkey |-> sum_coms[1],
                              pubshares |-> [ j \in 1 .. simpl_state.n |->
                                               << simpl_pubshare(sum_coms, j - 1, 1) >> ]],
              eq_input |-> to_bytes4(simpl_state.t) \o join(sum_coms)]

\* ------------------------------------------------------------ participant

\* The synthetic encryption nonce of participant_step1.
step1_secnonce(seed, random, enc_context) ==
    as_seckey(prf(seed, "encpodpop secnonce", random \o enc_context))

\* participant_step1 that keeps the secnonce in the state, for step 2.
participant_step1_keeping_secnonce(seed, deckey, enckeys, t, idx, random) ==
    LET n == Len(enckeys)
        enc_context == serialize_enc_context(t, enckeys)
        secnonce == step1_secnonce(seed, random, enc_context)
        pubnonce == pubkey_gen_plain(secnonce)
        simpl_seed == derive_simpl_seed(seed, pubnonce, enc_context)
        simpl == simpl_participant_step1(simpl_seed, t, n, idx)
        enc == encrypt_multi(secnonce, pubnonce, deckey, enckeys, simpl.shares,
                             enc_context, idx)
    IN  IF enc.status # "ok"
        THEN [status |-> enc.status, index |-> NoIndex]
        ELSE [status |-> "ok", index |-> NoIndex,
              state |-> [simpl_state |-> simpl.state, pubnonce |-> pubnonce,
                         enckeys |-> enckeys, idx |-> idx, secnonce |-> secnonce],
              pmsg |-> [simpl_pmsg |-> simpl.pmsg, pubnonce |-> pubnonce,
                        enc_shares |-> enc.ciphertexts]]

\* participant_step1(seed, deckey, enckeys, t, idx, random): the state and
\* the message, or the error that ends the call.
participant_step1(seed, deckey, enckeys, t, idx, random) ==
    LET n == Len(enckeys)
        enc_context == serialize_enc_context(t, enckeys)
        secnonce == step1_secnonce(seed, random, enc_context)
        pubnonce == pubkey_gen_plain(secnonce)
        simpl_seed == derive_simpl_seed(seed, pubnonce, enc_context)
        simpl == simpl_participant_step1(simpl_seed, t, n, idx)
        enc == encrypt_multi(secnonce, pubnonce, deckey, enckeys, simpl.shares,
                             enc_context, idx)
    IN  IF enc.status # "ok"
        THEN [status |-> enc.status, index |-> NoIndex]
        ELSE [status |-> "ok", index |-> NoIndex,
              state |-> [simpl_state |-> simpl.state, pubnonce |-> pubnonce,
                         enckeys |-> enckeys, idx |-> idx],
              pmsg |-> [simpl_pmsg |-> simpl.pmsg, pubnonce |-> pubnonce,
                        enc_shares |-> enc.ciphertexts]]

\* wrong_pubnonce that accepts whatever is reported.
wrong_pubnonce_unchecked(reported_pubnonce, pubnonce) == FALSE

\* The check of the reported pubnonce against the one of the state.
wrong_pubnonce(reported_pubnonce, pubnonce) == reported_pubnonce # pubnonce

\* participant_eq_input without the pubnonces.
participant_eq_input_keys_only(eq_input, enckeys, pubnonces) ==
    eq_input \o join(enckeys)

\* The transcript a participant returns: the core's, then all enckeys, then
\* all pubnonces.
participant_eq_input(eq_input, enckeys, pubnonces) ==
    eq_input \o join(enckeys) \o join(pubnonces)

\* participant_step2(state, deckey, cmsg, enc_secshare): the outputs or the
\* error; calls lists the steps the call went through, in order.
participant_step2(state, deckey, cmsg, enc_secshare) ==
    LET idx == state.idx
        enckeys == state.enckeys
        pubnonces == cmsg.pubnonces
        enc_context == serialize_enc_context(state.simpl_state.t, enckeys)
        dec == decrypt_sum(deckey, enckeys[idx + 1], pubnonces, enc_secshare,
                           enc_context, idx)
        simpl == simpl_participant_step2(state.simpl_state, cmsg.simpl_cmsg, dec.value)
    IN  IF idx >= Len(pubnonces)
        THEN [status |-> "IndexError", index |-> NoIndex, calls |-> <<>>]
        ELSE IF wrong_pubnonce(pubnonces[idx + 1], state.pubnonce)
        THEN [status |-> "InvalidContributionError", index |-> NoIndex,
              calls |-> <<>>]
        ELSE IF dec.status # "ok"
        THEN [status |-> dec.status, index |-> NoIndex,
              calls |-> << "decrypt_sum" >>]
        ELSE IF simpl.status # "ok"
        THEN [status |-> simpl.status, index |-> simpl.index,
              calls |-> << "decrypt_sum", "simplpedpop.participant_step2" >>]
        ELSE [status |-> "ok", index |-> NoIndex,
              calls |-> << "decrypt_sum", "simplpedpop.participant_step2" >>,
              dkg_output |-> simpl.dkg_output,
              eq_input |-> participant_eq_input(simpl.eq_input, enckeys, pubnonces)]

\* ------------------------------------------------------------ coordinator

\* wrong_count that only sees missing messages.
wrong_count_too_few(n, pmsgs) == n > Len(pmsgs)

\* The check of the number of messages against the number of keys.
wrong_count(n, pmsgs) == n # Len(pmsgs)

\* coordinator_eq_input with the pubnonces before the enckeys.
coordinator_eq_input_nonces_first(eq_input, enckeys, pubnonces) ==
    eq_input \o join(pubnonces) \o join(enckeys)

\* The transcript the coordinator returns.
coordinator_eq_input(eq_input, enckeys, pubnonces) ==
    eq_input \o join(enckeys) \o join(pubnonces)

\* The highest i whose enc_shares are not n long.
last_bad_length(pmsgs, n) ==
    CHOOSE i \in 0 .. n - 1 :
        /\ Len(pmsgs[i + 1].enc_shares) # n
        /\ \A k \in i + 1 .. n - 1 : Len(pmsgs[k + 1].enc_shares) = n

\* The lowest i (0-based) whose enc_shares are not n long: where the loop
\* of coordinator_step raises.
first_bad_length(pmsgs, n) ==
    CHOOSE i \in 0 .. n - 1 :
        /\ Len(pmsgs[i + 1].enc_shares) # n
        /\ \A k \in 0 .. i - 1 : Len(pmsgs[k + 1].enc_shares) = n

\* aggregate_shares with the two indices exchanged: entry i sums what
\* sender i addressed to everyone.
aggregate_shares_by_sender(pmsgs, n) ==
    [ i \in 1 .. n |->
        scalar_sum([ s \in 1 .. Len(pmsgs[i].enc_shares) |-> pmsgs[i].enc_shares[s] ]) ]

\* enc_secshares: entry i sums what every sender addressed to recipient i.
aggregate_shares(pmsgs, n) ==
    [ i \in 1 .. n |->
        scalar_sum([ s \in 1 .. Len(pmsgs) |-> pmsgs[s].enc_shares[i] ]) ]

\* forward_pubnonces in the opposite order.
forward_pubnonces_reversed(pmsgs) ==
    [ i \in 1 .. Len(pmsgs) |-> pmsgs[Len(pmsgs) + 1 - i].pubnonce ]

\* pubnonces: the pubnonce of every message, in the order of the messages.
forward_pubnonces(pmsgs) == [ i \in 1 .. Len(pmsgs) |-> pmsgs[i].pubnonce ]

\* coordinator_step without the check of the number of messages: it
\* aggregates the messages it was given, however many.
coordinator_step_any_count(pmsgs, t, enckeys) ==
    LET n == Len(enckeys)
        simpl == simpl_coordinator_step(
                    [ i \in 1 .. Len(pmsgs) |-> pmsgs[i].simpl_pmsg ], t, n)
        pubnonces == forward_pubnonces(pmsgs)
    IN  IF \E i \in 1 .. Len(pmsgs) : Len(pmsgs[i].enc_shares) # n
        THEN [status |-> "InvalidContributionError", index |-> NoIndex,
              calls |-> << "simplpedpop.coordinator_step" >>]
        ELSE [status |-> "ok", index |-> NoIndex,
              calls |-> << "simplpedpop.coordinator_step" >>,
              cmsg |-> [simpl_cmsg |-> simpl.cmsg, pubnonces |-> pubnonces],
              dkg_output |-> simpl.dkg_output,
              eq_input |-> coordinator_eq_input(simpl.eq_input, enckeys, pubnonces),
              enc_secshares |-> aggregate_shares(pmsgs, n)]

coordinator_step(pmsgs, t, enckeys) ==
    LET n == Len(enckeys)
        simpl == simpl_coordinator_step(
                    [ i \in 1 .. Len(pmsgs) |-> pmsgs[i].simpl_pmsg ], t, n)
        pubnonces == forward_pubnonces(pmsgs)
        enc_secshares == aggregate_shares(pmsgs, n)
    IN  IF wrong_count(n, pmsgs)
        THEN [status |-> "ValueError", index |-> NoIndex, calls |-> <<>>]
        ELSE IF \E i \in 1 .. n : Len(pmsgs[i].enc_shares) # n
        THEN [status |-> "InvalidContributionError",
              index |-> first_bad_length(pmsgs, n),
              calls |-> << "simplpedpop.coordinator_step" >>]
        ELSE [status |-> "ok", index |-> NoIndex,
              calls |-> << "simplpedpop.coordinator_step" >>,
              cmsg |-> [simpl_cmsg |-> simpl.cmsg, pubnonces |-> pubnonces],
              dkg_output |-> simpl.dkg_output,
              eq_input |-> coordinator_eq_input(simpl.eq_input, enckeys, pubnonces),
              enc_secshares |-> enc_secshares]

\* ---------------------------------------------------------------- session
\* One DKG session: n participants, each calling participant_step1 and then
\* participant_step2, and a coordinator that is not trusted.  The inputs of
\* the session are fixed by Init.  Messages travel through the coordinator:
\* what it is handed may hold enc_shares of a wrong length, and what it
\* hands back may report other pubnonces than it received.

VARIABLES
    n,          \* number of participants
    t,          \* threshold
    enckeys,    \* the list of encryption keys every party is given
    deckeys,    \* deckeys[i+1]: the decryption key of participant i
    seeds,      \* seeds[i+1]: the seed of participant i
    randoms,    \* randoms[i+1]: the fresh randomness of participant i
    res1,       \* res1[i+1]: what participant_step1 returned to participant i
    cres,       \* the last call of coordinator_step: its arguments and what
                \* it returned
    res2,       \* res2[i+1]: the last call of participant_step2 by participant
                \* i: its arguments and what it returned
    probe       \* a call of the encryption functions on their own

inputs == << n, t, enckeys, deckeys, seeds, randoms >>
svars == << res1, cres, res2 >>
vars == << n, t, enckeys, deckeys, seeds, randoms, res1, cres, res2, probe >>

NotCalled == [status |-> "none", index |-> NoIndex]

\* Another valid point than pk (pk is not the identity, the order is odd).
other_point(pk) == << PowMod(pk[1], 2) >>

\* The decryption key, seed and randomness of participant i in session
\* variant v: distinct per participant.
session_deckey(i, v) == << 1 + ((i + v) % (GroupOrder - 1)) >>
session_seed(i, v) == << 20 + 2 * i + v >>
session_random(i, v) == << 40 + i + 3 * v >>

\* The key lists a session may be given: every participant's own key, or
\* that list with the first or the last entry replaced by a string that is
\* no point or by some other valid key.
honest_enckeys(N, v) == [ j \in 1 .. N |-> pubkey_gen_plain(session_deckey(j - 1, v)) ]

session_enckeys(N, v) ==
    { honest_enckeys(N, v) }
    \cup { [honest_enckeys(N, v) EXCEPT ![j] = << NotOnCurve >>] : j \in {1, N} }
    \cup { [honest_enckeys(N, v) EXCEPT ![j] = other_point(@)] : j \in {1, N} }

Init ==
    /\ n \in 1 .. MaxN
    /\ t \in 1 .. n
    /\ \E v \in 0 .. 1 :
        /\ deckeys = [ j \in 1 .. n |-> session_deckey(j - 1, v) ]
        /\ seeds = [ j \in 1 .. n |-> session_seed(j - 1, v) ]
        /\ randoms = [ j \in 1 .. n |-> session_random(j - 1, v) ]
        /\ enckeys \in session_enckeys(n, v)
    /\ res1 = [ j \in 1 .. n |-> NotCalled ]
    /\ cres = NotCalled
    /\ res2 = [ j \in 1 .. n |-> NotCalled ]
    /\ probe = [op |-> "none"]

\* Participant i runs step 1.
Step1(i) ==
    /\ res1[i + 1].status = "none"
    /\ res1' = [res1 EXCEPT ![i + 1] =
                  participant_step1(seeds[i + 1], deckeys[i + 1], enckeys, t, i,
                                    randoms[i + 1])]
    /\ UNCHANGED << inputs, cres, res2, probe >>

\* The messages of the participants whose step 1 has returned, by index.
RECURSIVE sent_from(_)
sent_from(i) ==
    IF i >= n THEN <<>>
    ELSE (IF res1[i + 1].status = "ok" THEN << res1[i + 1].pmsg >> ELSE <<>>)
         \o sent_from(i + 1)

\* A message whose enc_shares are one too short or one too long.
resize_shares(pmsg, kind) ==
    [pmsg EXCEPT !.enc_shares =
        IF kind = "short" THEN SubSeq(@, 1, Len(@) - 1) ELSE Append(@, 0)]

\* The coordinator runs its step, once, on the messages it holds; the senders in
\* bad sent enc_shares of a wrong length, and with dup the last of all n
\* messages arrives twice.
CoordinatorStep ==
    /\ cres.status = "none"
    /\ \E bad \in SUBSET (1 .. n), kind \in {"short", "long"}, dup \in BOOLEAN :
        \E sent \in { sent_from(0) } :
            /\ bad \subseteq 1 .. Len(sent)
            /\ dup => Len(sent) = n
            /\ LET forged == [ j \in 1 .. Len(sent) |->
                      IF j \in bad THEN resize_shares(sent[j], kind) ELSE sent[j] ]
                   pmsgs == IF dup THEN Append(forged, forged[Len(sent)]) ELSE forged
               IN  \E out \in { coordinator_step(pmsgs, t, enckeys) } :
                       cres' = [call |-> [pmsgs |-> pmsgs], out |-> out,
                                status |-> out.status, index |-> out.index]
    /\ UNCHANGED << inputs, res1, res2, probe >>

\* The secnonce of a coordinator that adds a pubnonce of its own.
coordinator_secnonce == << 1 + (2 % (GroupOrder - 1)) >>

\* The coordinator message with its pubnonces altered: the one of i, the
\* one of the participant after i, the last one dropped, or the one of the
\* coordinator appended.
tampered(cmsg, i, how) ==
    [cmsg EXCEPT !.pubnonces =
        CASE how = "own" -> [@ EXCEPT ![i + 1] = other_point(@)]
          [] how = "other" -> [@ EXCEPT ![((i + 1) % Len(@)) + 1] = other_point(@)]
          [] how = "drop" -> SubSeq(@, 1, Len(@) - 1)
          [] how = "extra" -> Append(@, pubkey_gen_plain(coordinator_secnonce))
          [] OTHER -> @]

\* What the coordinator step returns when participant k has sent, in place
\* of its message, the message of a step 1 on other randomness.
rerun_with(k) ==
    coordinator_step(
        [cres.call.pmsgs EXCEPT ![k + 1] =
            participant_step1(seeds[k + 1], deckeys[k + 1], enckeys, t, k,
                              << randoms[k + 1][1] + 1 >>).pmsg],
        t, enckeys)

\* The coordinator message with a pubnonce of the coordinator appended,
\* and the aggregated ciphertext of participant i with the pad added that
\* i will subtract for that pubnonce: the coordinator derives it as a
\* sender to i would, from its secnonce and the key of i.
injected(i) ==
    LET pubnonce == pubkey_gen_plain(coordinator_secnonce)
        context_ == recipient_context(i, serialize_enc_context(t, enckeys))
    IN  [cmsg |-> [cres.out.cmsg EXCEPT !.pubnonces = Append(@, pubnonce)],
         enc_secshare |->
            scalar_add(cres.out.enc_secshares[i + 1],
                       ecdh(coordinator_secnonce, pubnonce, enckeys[i + 1],
                            context_, TRUE))]

\* What may reach participant i as coordinator message and aggregated
\* ciphertext: what the coordinator step returned, that with the pubnonces
\* altered, that with a pubnonce and a pad of the coordinator added, or
\* what a second coordinator step returned to which the participant after
\* i has sent another message.
delivered(i, how) ==
    IF how = "rerun"
    THEN LET again == rerun_with((i + 1) % n)
         IN  [cmsg |-> again.cmsg, enc_secshare |-> again.enc_secshares[i + 1]]
    ELSE IF how = "inject"
    THEN injected(i)
    ELSE [cmsg |-> tampered(cres.out.cmsg, i, how),
          enc_secshare |-> cres.out.enc_secshares[i + 1]]

\* The ways a coordinator message reaches a participant.
Deliveries == {"none", "own", "other", "drop", "extra", "rerun", "inject"}

\* The participants other than i whose last step 2 ran on a coordinator
\* message that is not the one the coordinator computed.
misled_others(i) ==
    { j \in 0 .. n - 1 :
        /\ j # i
        /\ res2[j + 1].status # "none"
        /\ res2[j + 1].call.cmsg # cres.out.cmsg }

\* Step2 that gives up the state of step 1 when the call fails.
Step2_consuming(i) ==
    /\ res1[i + 1].status = "ok"
    /\ cres.status = "ok"
    /\ \E how \in Deliveries :
        /\ how # "none" => misled_others(i) = {}
        /\ \E call \in { delivered(i, how) } :
           \E out \in { participant_step2(res1[i + 1].state, deckeys[i + 1],
                                          call.cmsg, call.enc_secshare) } :
               /\ res2' = [res2 EXCEPT ![i + 1] =
                      [call |-> call, out |-> out,
                       status |-> out.status, index |-> out.index]]
               /\ res1' = IF out.status = "ok" THEN res1
                          ELSE [res1 EXCEPT ![i + 1] = NotCalled]
    /\ UNCHANGED << inputs, cres, probe >>

\* Participant i runs step 2 on the state of its step 1, with the
\* coordinator message as it reached it and its aggregated ciphertext.
\* Nothing keeps a participant from running it again on the same state.
\* The coordinator misleads one participant at a time: it hands i something
\* else than it computed only while every other participant that has run
\* step 2 has run it on what the coordinator computed.
Step2(i) ==
    /\ res1[i + 1].status = "ok"
    /\ cres.status = "ok"
    /\ \E how \in Deliveries :
        /\ how # "none" => misled_others(i) = {}
        /\ \E call \in { delivered(i, how) } :
           \E out \in { participant_step2(res1[i + 1].state, deckeys[i + 1],
                                          call.cmsg, call.enc_secshare) } :
               res2' = [res2 EXCEPT ![i + 1] =
                   [call |-> call, out |-> out,
                    status |-> out.status, index |-> out.index]]
    /\ UNCHANGED << inputs, res1, cres, probe >>

Next ==
    \/ \E i \in 0 .. n - 1 : Step1(i)
    \/ CoordinatorStep
    \/ \E i \in 0 .. n - 1 : Step2(i)

Spec == Init /\ [][Next]_vars

\* ------------------------------------------- the functions on their own
\* The encryption functions and the context serialization called outside a
\* session, on inputs drawn from small sets: probe holds the inputs and
\* what the functions returned.

NoSession ==
    /\ n = 0 /\ t = 0 /\ enckeys = <<>> /\ deckeys = <<>>
    /\ seeds = <<>> /\ randoms = <<>>
    /\ res1 = <<>> /\ cres = NotCalled /\ res2 = <<>>

InitProbe == NoSession /\ probe = [op |-> "none"]

PointKeys == { << p >> : p \in Points }
ProbeThresholds == {1, 2, 257, 65536}
ProbeKeyLists == UNION { [1 .. k -> PointKeys] : k \in 1 .. 2 }
ProbeContexts ==
    { <<>> } \cup
    { recipient_context(i, serialize_enc_context(tt, << k >>)) :
        i \in 0 .. 1, tt \in 1 .. 2, k \in PointKeys }

\* Both sides of one Diffie-Hellman pad: A sends to B, B receives from A.
ProbeEcdh ==
    /\ probe.op = "none"
    /\ \E a \in SecKeys, b \in SecKeys, ctx \in ProbeContexts :
        probe' = [op |-> "ecdh", secretA |-> << a >>, secretB |-> << b >>,
                  context |-> ctx,
                  sending |-> ecdh(<< a >>, pubkey_gen_plain(<< a >>),
                                   pubkey_gen_plain(<< b >>), ctx, TRUE),
                  receiving |-> ecdh(<< b >>, pubkey_gen_plain(<< b >>),
                                     pubkey_gen_plain(<< a >>), ctx, FALSE)]
    /\ UNCHANGED << inputs, svars >>

\* The session context of two (t, enckeys), and what participant 0 with
\* one fixed seed, decryption key and nonce hashes under each: the inputs
\* of its pads and the input of the seed of the secret-sharing core.
ProbeContext ==
    /\ probe.op = "none"
    /\ \E t1 \in ProbeThresholds, t2 \in ProbeThresholds,
          k1 \in ProbeKeyLists, k2 \in ProbeKeyLists :
        \E c1 \in { serialize_enc_context(t1, k1) },
           c2 \in { serialize_enc_context(t2, k2) },
           secnonce \in { << 3 >> } :
            probe' = [op |-> "context", t1 |-> t1, enckeys1 |-> k1,
                      t2 |-> t2, enckeys2 |-> k2,
                      context1 |-> c1, context2 |-> c2,
                      pads1 |-> encaps_multi_data(secnonce, pubkey_gen_plain(secnonce),
                                                  << 1 >>, k1, c1, 0),
                      pads2 |-> encaps_multi_data(secnonce, pubkey_gen_plain(secnonce),
                                                  << 1 >>, k2, c2, 0),
                      seed1 |-> simpl_seed_data(pubkey_gen_plain(secnonce), c1),
                      seed2 |-> simpl_seed_data(pubkey_gen_plain(secnonce), c2)]
    /\ UNCHANGED << inputs, svars >>

\* A round trip to recipient idx: N senders encrypt one after the other,
\* the ciphertexts to idx are summed, and idx decrypts the sum.
RoundTripStart ==
    /\ probe.op = "none"
    /\ \E N \in 1 .. MaxN, d \in SecKeys, tt \in { 2 } :
        \E idx \in 0 .. N - 1 :
            \E keys \in { [ j \in 1 .. N |->
                             pubkey_gen_plain(IF j - 1 = idx THEN << d >>
                                              ELSE session_deckey(j - 1, 0)) ] } :
                probe' = [op |-> "roundtrip", n |-> N, idx |-> idx,
                          deckey |-> << d >>, enckeys |-> keys,
                          context |-> serialize_enc_context(tt, keys),
                          pubnonces |-> <<>>, sum_ciphertexts |-> 0,
                          sum_messages |-> 0, decrypted |-> NotCalled]
    /\ UNCHANGED << inputs, svars >>

\* The next sender encrypts a vector of messages under a nonce keypair: m
\* to the recipient, m2 to everyone else.
RoundTripEncrypt ==
    /\ probe.op = "roundtrip"
    /\ Len(probe.pubnonces) < probe.n
    /\ \E secnonce \in SecKeys, m \in Scalars :
        \E s \in { Len(probe.pubnonces) }, m2 \in { scalar_add(m, secnonce) } :
        \E enc \in { encrypt_multi(<< secnonce >>, pubkey_gen_plain(<< secnonce >>),
                        IF s = probe.idx THEN probe.deckey ELSE session_deckey(s, 0),
                        probe.enckeys,
                        [ j \in 1 .. probe.n |-> IF j - 1 = probe.idx THEN m ELSE m2 ],
                        probe.context, s) } :
            /\ enc.status = "ok"
            /\ probe' = [probe EXCEPT
                  !.pubnonces = Append(@, pubkey_gen_plain(<< secnonce >>)),
                  !.sum_ciphertexts = scalar_add(@, enc.ciphertexts[probe.idx + 1]),
                  !.sum_messages = scalar_add(@, m)]
    /\ UNCHANGED << inputs, svars >>

\* The recipient decrypts the sum.
RoundTripDecrypt ==
    /\ probe.op = "roundtrip"
    /\ Len(probe.pubnonces) = probe.n
    /\ probe.decrypted.status = "none"
    /\ probe' = [probe EXCEPT !.decrypted =
            decrypt_sum(probe.deckey, probe.enckeys[probe.idx + 1], probe.pubnonces,
                        probe.sum_ciphertexts, probe.context, probe.idx)]
    /\ UNCHANGED << inputs, svars >>

\* decrypt_sum and participant_step2 of participant idx on the first k
\* pubnonces of a coordinator message: N participants, each under its own
\* key, run step 1, and the coordinator step aggregates their messages.
ProbeDecryptSum ==
    /\ probe.op = "none"
    /\ \E N \in 1 .. MaxN, v \in 0 .. 1 :
        \E tt \in 1 .. N, idx \in 0 .. N - 1, k \in 0 .. N :
        \E keys \in { honest_enckeys(N, v) } :
        \E first \in { [ j \in 1 .. N |->
                          participant_step1(session_seed(j - 1, v),
                                            session_deckey(j - 1, v), keys, tt,
                                            j - 1, session_random(j - 1, v)) ] } :
        \E c \in { coordinator_step([ j \in 1 .. N |-> first[j].pmsg ], tt, keys) } :
        \E pubnonces \in { SubSeq(c.cmsg.pubnonces, 1, k) } :
            probe' = [op |-> "decrypt", n |-> N, idx |-> idx,
                      pubnonces |-> pubnonces,
                      decrypted |->
                          decrypt_sum(session_deckey(idx, v), keys[idx + 1], pubnonces,
                                      c.enc_secshares[idx + 1],
                                      serialize_enc_context(tt, keys), idx),
                      step2 |->
                          participant_step2(first[idx + 1].state,
                                            session_deckey(idx, v),
                                            [c.cmsg EXCEPT !.pubnonces = pubnonces],
                                            c.enc_secshares[idx + 1])]
    /\ UNCHANGED << inputs, svars >>

\* The lists of k pairwise distinct secnonces.
DistinctSecnonces(k) ==
    { l \in [1 .. k -> { << x >> : x \in SecKeys }] :
        \A i \in 1 .. k, j \in 1 .. k : i # j => l[i] # l[j] }

\* What the N senders of one session hash for their pads: sender s calls
\* encaps_multi with its secnonce, its deckey and its index over the same
\* enckeys and context.  The pubnonces are pairwise distinct.
ProbePads ==
    /\ probe.op = "none"
    /\ \E N \in 1 .. MaxN, tt \in { 2 }, same \in BOOLEAN :
        \E keys \in [1 .. N -> PointKeys], secnonces \in DistinctSecnonces(N) :
        \E context \in { serialize_enc_context(tt, keys) },
           dks \in { [ j \in 1 .. N |-> session_deckey(IF same THEN 0 ELSE j - 1, 0) ] } :
            probe' = [op |-> "pads", n |-> N, enckeys |-> keys, deckeys |-> dks,
                      secnonces |-> secnonces, context |-> context,
                      tags |-> [ s \in 1 .. N |-> encaps_multi_tags(keys, s - 1) ],
                      data |-> [ s \in 1 .. N |->
                          encaps_multi_data(secnonces[s],
                                            pubkey_gen_plain(secnonces[s]),
                                            dks[s], keys, context, s - 1) ]]
    /\ UNCHANGED << inputs, svars >>

NextProbe ==
    \/ ProbeEcdh
    \/ ProbePads
    \/ ProbeDecryptSum
    \/ ProbeContext
    \/ RoundTripStart
    \/ RoundTripEncrypt
    \/ RoundTripDecrypt

SpecProbe == InitProbe /\ [][NextProbe]_vars

\* ------------------------------------------------------------- properties

\* C1 (round trip): once the recipient idx has decrypted the sum of the
\* ciphertexts the n senders addressed to it, with enckeys[idx] the key of
\* its deckey and every sender using the same enckeys and context, what
\* decrypt_sum returns is the sum of the messages the senders addressed to
\* idx.
C1_RoundTrip ==
    (probe.op = "roundtrip" /\ probe.decrypted.status # "none")
        => /\ probe.decrypted.status = "ok"
           /\ probe.decrypted.value = probe.sum_messages

\* Three senders, the recipient in the middle (one self pad, two
\* Diffie-Hellman pads), and a sum of ciphertexts that is not the sum of
\* the messages.
C1_Witness ==
    /\ probe.op = "roundtrip"
    /\ probe.n = 3
    /\ probe.idx = 1
    /\ probe.decrypted.status = "ok"
    /\ probe.sum_ciphertexts # probe.sum_messages
    /\ probe.pubnonces[1] # probe.pubnonces[3]

\* C7 (pad symmetry): the pad A derives when sending to B is the pad B
\* derives when receiving from A, for every pair of keypairs and every
\* context, and both hash the same string: the Diffie-Hellman value, A's
\* key, B's key, the context.
C7_PadSymmetry ==
    probe.op = "ecdh"
        => LET pubA == pubkey_gen_plain(probe.secretA)
               pubB == pubkey_gen_plain(probe.secretB)
           IN  /\ probe.sending = probe.receiving
               /\ ecdh_data(probe.secretA, pubA, pubB, probe.context, TRUE)
                    = ecdh_data(probe.secretB, pubB, pubA, probe.context, FALSE)
               /\ SubSeq(ecdh_data(probe.secretB, pubB, pubA, probe.context, FALSE),
                         2, 3) = pubA \o pubB

\* Two different keypairs and a context that is not empty.
C7_Witness ==
    /\ probe.op = "ecdh"
    /\ probe.secretA # probe.secretB
    /\ Len(probe.context) > 0

\* The last k tokens of a byte string.
suffix(b, k) == SubSeq(b, Len(b) - k + 1, Len(b))

\* C8 (context binding): for t < 2^32 and keys of one size, two (t, enckeys)
\* that differ in t or in an entry of enckeys have different session
\* contexts; the context is the end of what every pad derivation hashes and
\* of what the derivation of the core's seed hashes, so these inputs differ
\* as well.
C8_ContextBinding ==
    probe.op = "context"
        => /\ \A j \in 1 .. Len(probe.pads1) :
                suffix(probe.pads1[j], Len(probe.context1)) = probe.context1
           /\ suffix(probe.seed1, Len(probe.context1)) = probe.context1
           /\ (probe.t1 # probe.t2 \/ probe.enckeys1 # probe.enckeys2)
                => /\ probe.context1 # probe.context2
                   /\ probe.seed1 # probe.seed2
                   /\ \A j \in 1 .. Len(probe.pads1) :
                        j <= Len(probe.pads2) => probe.pads1[j] # probe.pads2[j]

\* Two key lists that differ in their last entry only, under one threshold
\* that needs more than one byte.
C8_Witness ==
    /\ probe.op = "context"
    /\ probe.t1 = probe.t2
    /\ probe.t1 = 257
    /\ Len(probe.enckeys1) = 2
    /\ Len(probe.enckeys2) = 2
    /\ probe.enckeys1[1] = probe.enckeys2[1]
    /\ probe.enckeys1[2] # probe.enckeys2[2]

\* Every participant is listed under the key of its own decryption key.
OwnKeys == \A j \in 1 .. n : enckeys[j] = pubkey_gen_plain(deckeys[j])

\* Participant j (1-based) has run step 2 on what the coordinator computed:
\* its message, unmodified, and the aggregated ciphertext of j.
ServedHonestly(j) ==
    /\ res2[j].status # "none"
    /\ res2[j].call.cmsg = cres.out.cmsg
    /\ res2[j].call.enc_secshare = cres.out.enc_secshares[j]

\* C2 (agreement in an honest run): when the participants, each listed
\* under its own key, have run step 1 over the same t and enckeys and the
\* coordinator step has succeeded on their n messages, every participant
\* that runs step 2 on the unmodified coordinator message and its own
\* aggregated ciphertext succeeds, and returns the transcript and the group
\* public key that the coordinator step returned; so all participants agree.
C2_HonestAgreement ==
    (cres.status = "ok" /\ OwnKeys)
        => /\ \A j \in 1 .. n : ServedHonestly(j)
                => /\ res2[j].status = "ok"
                   /\ res2[j].out.eq_input = cres.out.eq_input
                   /\ res2[j].out.dkg_output.threshold_pubkey
                        = cres.out.dkg_output.threshold_pubkey
           /\ \A j \in 1 .. n, k \in 1 .. n :
                (ServedHonestly(j) /\ ServedHonestly(k))
                    => /\ res2[j].out.eq_input = res2[k].out.eq_input
                       /\ res2[j].out.dkg_output.threshold_pubkey
                            = res2[k].out.dkg_output.threshold_pubkey

\* The end-to-end scenario: n = 3, t = 2, all three have finished step 2.
C2_Witness ==
    /\ n = 3
    /\ t = 2
    /\ OwnKeys
    /\ cres.status = "ok"
    /\ \A j \in 1 .. n : ServedHonestly(j) /\ res2[j].status = "ok"

\* Participant j (1-based) has run step 2 on a coordinator message that
\* reports, for j's own index, another pubnonce than the one of j's state.
OwnNonceAltered(j) ==
    /\ res2[j].status # "none"
    /\ Len(res2[j].call.cmsg.pubnonces) >= j
    /\ res2[j].call.cmsg.pubnonces[j] # res1[j].state.pubnonce

\* C3 (tamper detection): a step 2 whose coordinator message reports a
\* wrong pubnonce for the participant's own index fails with an
\* InvalidContributionError without index, before decrypt_sum and the
\* core's step 2 are called, and returns no dkg_output and no eq_input.
C3_TamperDetection ==
    \A j \in 1 .. n :
        OwnNonceAltered(j)
            => /\ res2[j].out.status = "InvalidContributionError"
               /\ res2[j].out.index = NoIndex
               /\ res2[j].out.calls = <<>>
               /\ "dkg_output" \notin DOMAIN res2[j].out
               /\ "eq_input" \notin DOMAIN res2[j].out

\* The second of three participants is handed a message with its own
\* pubnonce altered and all other pubnonces as the coordinator computed
\* them.
C3_Witness ==
    /\ n = 3
    /\ OwnNonceAltered(2)
    /\ res2[2].call.cmsg.pubnonces[1] = cres.out.cmsg.pubnonces[1]
    /\ res2[2].call.cmsg.pubnonces[3] = cres.out.cmsg.pubnonces[3]

\* The senders (1-based) whose enc_shares, as handed to the coordinator,
\* are not n long.
BadLengths == { j \in 1 .. Len(cres.call.pmsgs) : Len(cres.call.pmsgs[j].enc_shares) # n }

\* C4 (length validation): a coordinator step on n messages of which some
\* have enc_shares of another length than n fails with an
\* InvalidContributionError whose index is the lowest such sender, and
\* returns no coordinator message and no aggregated ciphertexts.
C4_LengthValidation ==
    (cres.status # "none" /\ Len(cres.call.pmsgs) = n /\ BadLengths # {})
        => /\ cres.out.status = "InvalidContributionError"
           /\ cres.out.index + 1 \in BadLengths
           /\ \A j \in BadLengths : cres.out.index + 1 <= j
           /\ "cmsg" \notin DOMAIN cres.out
           /\ "enc_secshares" \notin DOMAIN cres.out

\* Two offenders, neither of them the first participant.
C4_Witness ==
    /\ n = 3
    /\ cres.status = "InvalidContributionError"
    /\ Len(cres.call.pmsgs) = n
    /\ BadLengths = {2, 3}
    /\ cres.out.index = 1

\* C5 (message count): a coordinator step on a number of messages that is
\* not the number of enckeys fails with a ValueError, which is no
\* InvalidContributionError and names no participant, before the core's
\* coordinator step is called, and returns nothing.
C5_CountMismatch ==
    (cres.status # "none" /\ Len(cres.call.pmsgs) # n)
        => /\ cres.out.status = "ValueError"
           /\ cres.out.index = NoIndex
           /\ cres.out.calls = <<>>
           /\ DOMAIN cres.out = {"status", "index", "calls"}

\* One message too many.
C5_Witness ==
    /\ cres.status = "ValueError"
    /\ Len(cres.call.pmsgs) = n + 1

\* C6 (single-use state): the state of a participant is used by one step 2
\* and is gone after it: once step 2 has returned its outputs to
\* participant j, a later step 2 on the same state with another
\* coordinator message, here the message of a second coordinator step, is
\* rejected and returns no outputs.
C6_SingleUse ==
    [][ \A j \in 1 .. n :
          ( /\ res2[j].status = "ok"
            /\ res2'[j].call.cmsg # res2[j].call.cmsg
            /\ res2'[j].call = delivered(j - 1, "rerun") )
              => res2'[j].status # "ok" ]_vars

\* C9 (invalid key attribution): a step 1 of participant i under a key
\* list with an entry j # i that is no curve point fails with an
\* InvalidContributionError whose index is j.
C9_InvalidKeyAttributed ==
    \A i \in 1 .. n : \A j \in 1 .. n :
        (res1[i].status # "none" /\ j # i /\ ~is_valid_point(enckeys[j]))
            => /\ res1[i].status = "InvalidContributionError"
               /\ res1[i].index = j - 1

ErrorFields == {"status", "index", "calls"}

\* C11 (no partial state on failure): a participant_step1, a
\* coordinator_step or a participant_step2 that fails returns nothing but
\* its error and changes nothing that existed before the call: the inputs,
\* what the other steps returned, and, for a failed step 2, the state that
\* step 1 returned to the participant.
C11_NoPartialState ==
    [][ /\ \A j \in 1 .. n :
              (res1'[j] # res1[j] /\ res1'[j].status # "ok")
                  => /\ DOMAIN res1'[j] \subseteq ErrorFields
                     /\ inputs' = inputs /\ cres' = cres /\ res2' = res2
                     /\ \A k \in 1 .. n : k # j => res1'[k] = res1[k]
        /\ (cres' # cres /\ cres'.status # "ok")
              => /\ DOMAIN cres'.out \subseteq ErrorFields
                 /\ inputs' = inputs /\ res1' = res1 /\ res2' = res2
        /\ \A j \in 1 .. n :
              (res2'[j] # res2[j] /\ res2'[j].status # "ok")
                  => /\ DOMAIN res2'[j].out \subseteq ErrorFields
                     /\ inputs' = inputs /\ res1' = res1 /\ cres' = cres
                     /\ \A k \in 1 .. n : k # j => res2'[k] = res2[k] ]_vars

\* A step 2 has failed on an altered coordinator message, and the state of
\* the participant's step 1 is still the one whose pubnonce the
\* coordinator was sent.
C11_Witness ==
    \E j \in 1 .. n :
        /\ res2[j].status = "InvalidContributionError"
        /\ res1[j].status = "ok"
        /\ res1[j].state.pubnonce = cres.call.pmsgs[j].pubnonce
        /\ res2[j].call.cmsg # cres.out.cmsg

\* The fields of ParticipantState and of ParticipantMsg.
StateFields == {"simpl_state", "pubnonce", "enckeys", "idx"}
MsgFields == {"simpl_pmsg", "pubnonce", "enc_shares"}

\* C13 (secrets stay in step 1): the state step 1 returns holds exactly
\* the core's state, the pubnonce, the enckeys and idx, and the message
\* exactly the core's message, the pubnonce and the encrypted shares:
\* neither has a field for the decryption key or the secnonce, so what the
\* coordinator is handed holds no such field either.
C13_SecretsStayInStep1 ==
    /\ \A j \in 1 .. n :
          res1[j].status = "ok"
              => /\ DOMAIN res1[j] = {"status", "index", "state", "pmsg"}
                 /\ DOMAIN res1[j].state = StateFields
                 /\ DOMAIN res1[j].pmsg = MsgFields
    /\ cres.status # "none"
          => \A k \in 1 .. Len(cres.call.pmsgs) :
                DOMAIN cres.call.pmsgs[k] = MsgFields
    /\ \A j \in 1 .. n :
          res2[j].status # "none" => DOMAIN res1[j].state = StateFields

\* Three participants have sent their messages, the coordinator has
\* aggregated them, and a participant has gone on to step 2 with its state.
C13_Witness ==
    /\ n = 3
    /\ \A j \in 1 .. n : res1[j].status = "ok"
    /\ cres.status = "ok"
    /\ \E j \in 1 .. n : res2[j].status = "ok"

\* The sum of what the senders from s on addressed to recipient i (both
\* 1-based), one ciphertext after the other.
RECURSIVE column_total(_, _, _)
column_total(pmsgs, i, s) ==
    IF s > Len(pmsgs) THEN 0
    ELSE (pmsgs[s].enc_shares[i] + column_total(pmsgs, i, s + 1)) % GroupOrder

\* C14 (homomorphic aggregation): a coordinator step that succeeds on n
\* messages returns n aggregated ciphertexts, and the one of recipient i is
\* the sum over all n senders of the ciphertext the sender addressed to i.
C14_HomomorphicAggregation ==
    cres.status = "ok"
        => /\ Len(cres.call.pmsgs) = n
           /\ Len(cres.out.enc_secshares) = n
           /\ \A i \in 1 .. n :
                cres.out.enc_secshares[i] = column_total(cres.call.pmsgs, i, 1)

\* Three senders, and a sender whose own ciphertexts do not sum to what
\* was addressed to it.
C14_Witness ==
    /\ n = 3
    /\ cres.status = "ok"
    /\ \E i \in 1 .. n :
          cres.out.enc_secshares[i]
              # scalar_sum(cres.call.pmsgs[i].enc_shares)

\* C15 (pubnonce forwarding): a coordinator step that succeeds returns a
\* message with n pubnonces, the i-th being the pubnonce of the i-th
\* participant message, and a transcript that is the core's transcript
\* followed by the enckeys in order and then the pubnonces in order.
C15_PubnonceForwarding ==
    cres.status = "ok"
        => LET pmsgs == cres.call.pmsgs
               fragment == simpl_coordinator_step(
                               [ i \in 1 .. n |-> pmsgs[i].simpl_pmsg ], t, n).eq_input
               eq_input == cres.out.eq_input
           IN  /\ Len(cres.out.cmsg.pubnonces) = n
               /\ \A i \in 1 .. n : cres.out.cmsg.pubnonces[i] = pmsgs[i].pubnonce
               /\ Len(eq_input) = Len(fragment) + 2 * n
               /\ SubSeq(eq_input, 1, Len(fragment)) = fragment
               /\ \A i \in 1 .. n :
                    /\ << eq_input[Len(fragment) + i] >> = enckeys[i]
                    /\ << eq_input[Len(fragment) + n + i] >> = pmsgs[i].pubnonce

\* Three participants, the first and the last with different pubnonces.
C15_Witness ==
    /\ n = 3
    /\ cres.status = "ok"
    /\ cres.call.pmsgs[1].pubnonce # cres.call.pmsgs[3].pubnonce
    /\ cres.out.cmsg.pubnonces[3] = cres.call.pmsgs[3].pubnonce

C17_AcceptedLengths ==
    \A j \in 1 .. n :
        res2[j].status = "ok"
            => Len(res2[j].call.cmsg.pubnonces) = Len(res1[j].state.enckeys)

\* C18 (recipient index out of range): decrypt_sum with idx not smaller
\* than the number of pubnonces ends in an IndexError and returns no
\* scalar; a participant_step2 whose state index is not smaller than the
\* number of pubnonces of the coordinator message ends in an IndexError as
\* well, not in an InvalidContributionError, before any decryption.
C18_IndexOutOfRange ==
    (probe.op = "decrypt" /\ probe.idx >= Len(probe.pubnonces))
        => /\ probe.decrypted.status = "IndexError"
           /\ DOMAIN probe.decrypted = {"status"}
           /\ probe.step2.status = "IndexError"
           /\ probe.step2.calls = <<>>
           /\ DOMAIN probe.step2 \subseteq ErrorFields

\* The second participant with one pubnonce: idx is the number of
\* pubnonces.
C18_Witness ==
    /\ probe.op = "decrypt"
    /\ probe.idx = 1
    /\ Len(probe.pubnonces) = 1
    /\ probe.step2.status = "IndexError"

\* C19 (one pad per sender, recipient and session): in a session with
\* pairwise distinct pubnonces, what is hashed for the pad of sender s to
\* recipient r is, for s # r, the Diffie-Hellman value, the pubnonce of s,
\* enckeys[r], the 4 bytes of r and the session context under the ecdh
\* tag, and for s = r the deckey of s, the 4 bytes of r and the session
\* context under the self-pad tag; over all ordered pairs (s, r) these
\* inputs are pairwise distinct.
C19_OnePadPerPair ==
    probe.op = "pads"
        => LET N == probe.n
               input == [ s \in 1 .. N |-> [ r \in 1 .. N |->
                            << probe.tags[s][r], probe.data[s][r] >> ] ]
           IN  /\ \A s \in 1 .. N, r \in 1 .. N :
                    LET data == probe.data[s][r]
                    IN  IF s # r
                        THEN /\ probe.tags[s][r] = "encpedpop ecdh"
                             /\ << data[2] >> = pubkey_gen_plain(probe.secnonces[s])
                             /\ << data[3] >> = probe.enckeys[r]
                             /\ SubSeq(data, 4, 7) = << 0, 0, 0, r - 1 >>
                             /\ SubSeq(data, 8, Len(data)) = probe.context
                        ELSE /\ probe.tags[s][r] = "encaps_multi self_pad"
                             /\ << data[1] >> = probe.deckeys[s]
                             /\ SubSeq(data, 2, 5) = << 0, 0, 0, r - 1 >>
                             /\ SubSeq(data, 6, Len(data)) = probe.context
               /\ \A s \in 1 .. N, r \in 1 .. N, s2 \in 1 .. N, r2 \in 1 .. N :
                    << s, r >> # << s2, r2 >> => input[s][r] # input[s2][r2]

\* Three senders, two of the recipients listed under the same encryption
\* key, and two senders with the same decryption key.
C19_Witness ==
    /\ probe.op = "pads"
    /\ probe.n = 3
    /\ probe.enckeys[1] = probe.enckeys[2]
    /\ probe.deckeys[1] = probe.deckeys[3]

\* The transcript fragment the core's step 2 returned to participant j
\* (1-based) in its last, successful, step 2.
CoreFragment(j) ==
    simpl_participant_step2(res1[j].state.simpl_state, res2[j].call.cmsg.simpl_cmsg,
                            res2[j].out.dkg_output.secshare).eq_input

\* Participants j and k have both completed step 2, on coordinator
\* messages with different pubnonces lists, and the core returned both the
\* same transcript fragment.
SplitView(j, k) ==
    /\ res2[j].status = "ok"
    /\ res2[k].status = "ok"
    /\ res1[j].state.enckeys = res1[k].state.enckeys
    /\ res2[j].call.cmsg.pubnonces # res2[k].call.cmsg.pubnonces
    /\ CoreFragment(j) = CoreFragment(k)

\* C20 (the transcript exposes split views): two participants with the
\* same enckeys that both complete step 2, on coordinator messages whose
\* pubnonces lists differ and with the same transcript fragment of the
\* core, return different eq_input.
C20_SplitViews ==
    \A j \in 1 .. n, k \in 1 .. n :
        SplitView(j, k) => res2[j].out.eq_input # res2[k].out.eq_input

\* Two of three participants in a split view: one on the message the
\* coordinator computed, the other on that message with one more pubnonce.
C20_Witness ==
    /\ n = 3
    /\ \E j \in 1 .. n, k \in 1 .. n :
          /\ SplitView(j, k)
          /\ res2[k].call.cmsg = cres.out.cmsg
          /\ Len(res2[j].call.cmsg.pubnonces) = n + 1
          /\ SubSeq(res2[j].call.cmsg.pubnonces, 1, n) = cres.out.cmsg.pubnonces

====
